---- MODULE Spec2Model ----
(***************************************************************************)
(* Model of src/ai_project/app.py: the Tkinter chess session controller    *)
(* (ChessApp) and the one-ply material-minimising move selector            *)
(* (make_ai_move / evaluate_board).                                        *)
(*                                                                         *)
(* The python-chess rules engine the program calls is modelled by the      *)
(* operators of the section "rules engine": piece placement, pseudo-legal  *)
(* and legal moves, push/pop, checkmate, stalemate and insufficient        *)
(* material.  Castling, en passant, the 75-move rule and fivefold          *)
(* repetition are not generated: no Init position below can reach any of   *)
(* them within MaxPly + 1 plies (castling needs seven plies from the start *)
(* position, en passant five; the other Init positions carry no castling   *)
(* rights and no pawn that can be captured en passant).                    *)
(***************************************************************************)
EXTENDS Integers, Sequences, FiniteSets, TLC

\* ------------------------------------------------------------------ bounds
\* Number of half-moves the model lets a game run from its Init position.
MaxPly == 2

\* ------------------------------------------------------- program constants
ROWS == 8
COLS == 8
SQUARE_SIZE == 80

\* chess.PAWN .. chess.KING, chess.WHITE / chess.BLACK, None
PAWN == 1
KNIGHT == 2
BISHOP == 3
ROOK == 4
QUEEN == 5
KING == 6
WHITE == TRUE
BLACK == FALSE
None == -1

\* float('inf') of make_ai_move: larger than every material score
INF == 1000

SQUARES == 0..63

\* ------------------------------------------------------------ rules engine
\* A piece is an integer: 0 for an empty square (piece_at returns None),
\* t for a White piece of type t, -t for a Black piece of type t.
Abs(n) == IF n < 0 THEN -n ELSE n
Sgn(n) == IF n < 0 THEN -1 ELSE IF n > 0 THEN 1 ELSE 0
MaxOf(a, b) == IF a > b THEN a ELSE b

piece_type(p) == Abs(p)
piece_color(p) == p > 0
MakePiece(t, c) == IF c = WHITE THEN t ELSE -t

square(file, rank) == rank * 8 + file
square_file(s) == s % 8
square_rank(s) == s \div 8

\* board.piece_at(square): 0 stands for None
piece_at(b, s) == b.pieces[s]

\* True when the squares strictly between s and t on their common line are empty
PathClear(pcs, s, t) ==
    LET df == square_file(t) - square_file(s)
        dr == square_rank(t) - square_rank(s)
        n  == MaxOf(Abs(df), Abs(dr))
        step == Sgn(dr) * 8 + Sgn(df)
    IN  \A k \in 1..(n - 1) : pcs[s + k * step] = 0

\* The piece standing on s attacks square t
Attacks(pcs, s, t) ==
    LET p  == pcs[s]
        df == square_file(t) - square_file(s)
        dr == square_rank(t) - square_rank(s)
        ty == piece_type(p)
    IN  /\ p # 0
        /\ s # t
        /\ CASE ty = PAWN   -> Abs(df) = 1 /\ dr = (IF piece_color(p) = WHITE THEN 1 ELSE -1)
             [] ty = KNIGHT -> {Abs(df), Abs(dr)} = {1, 2}
             [] ty = KING   -> Abs(df) <= 1 /\ Abs(dr) <= 1
             [] ty = ROOK   -> (df = 0 \/ dr = 0) /\ PathClear(pcs, s, t)
             [] ty = BISHOP -> Abs(df) = Abs(dr) /\ PathClear(pcs, s, t)
             [] ty = QUEEN  -> (df = 0 \/ dr = 0 \/ Abs(df) = Abs(dr)) /\ PathClear(pcs, s, t)
             [] OTHER       -> FALSE

KingSquare(pcs, c) == CHOOSE s \in SQUARES : pcs[s] = MakePiece(KING, c)

\* board.is_check() for the side c
InCheck(pcs, c) ==
    LET k == KingSquare(pcs, c)
    IN  \E s \in SQUARES : pcs[s] # 0 /\ piece_color(pcs[s]) # c /\ Attacks(pcs, s, k)

\* chess.Move(from_square, to_square, promotion): promotion 0 stands for None
Move(from, to, promo) == [from_square |-> from, to_square |-> to, promotion |-> promo]

\* Piece placement after the move (the placement part of board.push)
MovePieces(pcs, m) ==
    LET p == pcs[m.from_square]
        q == IF m.promotion # 0 THEN MakePiece(m.promotion, piece_color(p)) ELSE p
    IN  [pcs EXCEPT ![m.from_square] = 0, ![m.to_square] = q]

LastRank(c) == IF c = WHITE THEN 7 ELSE 0
StartRank(c) == IF c = WHITE THEN 1 ELSE 6
Forward(c) == IF c = WHITE THEN 8 ELSE -8

\* board.is_pseudo_legal(move)
is_pseudo_legal(b, m) ==
    LET pcs == b.pieces
        s == m.from_square
        t == m.to_square
        p == pcs[s]
        c == b.turn
    IN  /\ p # 0
        /\ piece_color(p) = c
        /\ ~(pcs[t] # 0 /\ piece_color(pcs[t]) = c)
        /\ IF piece_type(p) = PAWN
           THEN /\ \/ t = s + Forward(c) /\ pcs[t] = 0
                   \/ /\ t = s + 2 * Forward(c)
                      /\ square_rank(s) = StartRank(c)
                      /\ pcs[s + Forward(c)] = 0
                      /\ pcs[t] = 0
                   \/ Attacks(pcs, s, t) /\ pcs[t] # 0
                /\ IF square_rank(t) = LastRank(c)
                   THEN m.promotion \in {KNIGHT, BISHOP, ROOK, QUEEN}
                   ELSE m.promotion = 0
           ELSE Attacks(pcs, s, t) /\ m.promotion = 0

\* move in board.legal_moves
is_legal(b, m) ==
    /\ is_pseudo_legal(b, m)
    /\ ~InCheck(MovePieces(b.pieces, m), b.turn)

\* The promotion fields a move from s to t can carry, in generation order
Promotions(b, s, t) ==
    IF piece_type(b.pieces[s]) = PAWN /\ square_rank(t) = LastRank(b.turn)
    THEN <<QUEEN, ROOK, BISHOP, KNIGHT>>
    ELSE <<0>>

\* The legal moves from s to t
MovesBetween(b, s, t) ==
    LET promos == Promotions(b, s, t)
        Ok(pr) == is_legal(b, Move(s, t, pr))
        kept   == SelectSeq(promos, Ok)
    IN  [i \in 1..Len(kept) |-> Move(s, t, kept[i])]

\* The legal moves from s to the squares lo..hi
RECURSIVE MovesTo(_, _, _, _)
MovesTo(b, s, lo, hi) ==
    IF lo = hi THEN MovesBetween(b, s, lo)
    ELSE LET mid == (lo + hi) \div 2
         IN  MovesTo(b, s, lo, mid) \o MovesTo(b, s, mid + 1, hi)

\* The legal moves from the squares lo..hi
RECURSIVE MovesFrom(_, _, _)
MovesFrom(b, lo, hi) ==
    IF lo = hi
    THEN (IF b.pieces[lo] # 0 /\ piece_color(b.pieces[lo]) = b.turn
          THEN MovesTo(b, lo, 0, 63) ELSE <<>>)
    ELSE LET mid == (lo + hi) \div 2
         IN  MovesFrom(b, lo, mid) \o MovesFrom(b, mid + 1, hi)

\* list(board.legal_moves), by origin and destination square (make_ai_move's
\* result depends on the order only through the order of best_moves)
legal_move_list(b) == MovesFrom(b, 0, 63)

\* set(board.legal_moves)
legal_moves(b) == LET l == legal_move_list(b) IN {l[i] : i \in 1..Len(l)}

\* board.push(move): the stack keeps the placements to restore on pop
push(b, m) ==
    [pieces |-> MovePieces(b.pieces, m),
     turn   |-> ~b.turn,
     stack  |-> Append(b.stack, b.pieces)]

\* board.pop()
pop(b) ==
    [pieces |-> b.stack[Len(b.stack)],
     turn   |-> ~b.turn,
     stack  |-> SubSeq(b.stack, 1, Len(b.stack) - 1)]

HasLegalMove(b) ==
    \E s \in SQUARES : /\ b.pieces[s] # 0
                       /\ piece_color(b.pieces[s]) = b.turn
                       /\ \E t \in SQUARES : \E pr \in {0, QUEEN} : is_legal(b, Move(s, t, pr))

is_checkmate(b) == InCheck(b.pieces, b.turn) /\ ~HasLegalMove(b)
is_stalemate(b) == ~InCheck(b.pieces, b.turn) /\ ~HasLegalMove(b)

Of(pcs, c) == {s \in SQUARES : pcs[s] # 0 /\ piece_color(pcs[s]) = c}
OfType(pcs, ty) == {s \in SQUARES : piece_type(pcs[s]) = ty}
IsDark(s) == (square_file(s) + square_rank(s)) % 2 = 0

\* board.has_insufficient_material(color)
has_insufficient_material(pcs, c) ==
    IF Of(pcs, c) \cap (OfType(pcs, PAWN) \cup OfType(pcs, ROOK) \cup OfType(pcs, QUEEN)) # {}
    THEN FALSE
    ELSE IF Of(pcs, c) \cap OfType(pcs, KNIGHT) # {}
    THEN /\ Cardinality(Of(pcs, c)) <= 2
         /\ Of(pcs, ~c) \ (OfType(pcs, KING) \cup OfType(pcs, QUEEN)) = {}
    ELSE IF Of(pcs, c) \cap OfType(pcs, BISHOP) # {}
    THEN /\ \/ \A s \in OfType(pcs, BISHOP) : IsDark(s)
            \/ \A s \in OfType(pcs, BISHOP) : ~IsDark(s)
         /\ OfType(pcs, PAWN) = {}
         /\ OfType(pcs, KNIGHT) = {}
    ELSE TRUE

is_insufficient_material(b) ==
    has_insufficient_material(b.pieces, WHITE) /\ has_insufficient_material(b.pieces, BLACK)

\* board.is_game_over()
is_game_over(b) ==
    \/ is_insufficient_material(b)
    \/ ~HasLegalMove(b)

\* ---------------------------------------------------------------- AI logic
piece_values ==
    (PAWN :> 1) @@ (KNIGHT :> 3) @@ (BISHOP :> 3) @@ (ROOK :> 5) @@ (QUEEN :> 9) @@ (KING :> 0)

\* Mutant of SquareScore: the value is added whatever the colour of the piece
SquareScore_AllAdded(b, sq) ==
    LET piece == piece_at(b, sq)
    IN  IF piece # 0 THEN piece_values[piece_type(piece)] ELSE 0

\* The body of evaluate_board's loop: what the square adds to the score
SquareScore(b, sq) ==
    LET piece == piece_at(b, sq)
    IN  IF piece # 0
        THEN IF piece_color(piece) = WHITE
             THEN piece_values[piece_type(piece)]
             ELSE 0 - piece_values[piece_type(piece)]
        ELSE 0

\* evaluate_board's loop over the squares lo..hi of chess.SQUARES
RECURSIVE EvalRange(_, _, _)
EvalRange(b, lo, hi) ==
    IF lo = hi THEN SquareScore(b, lo)
    ELSE LET mid == (lo + hi) \div 2
         IN  EvalRange(b, lo, mid) + EvalRange(b, mid + 1, hi)

evaluate_board(b) == EvalRange(b, 0, 63)

\* Mutant of IsBetter: the comparison turned around
IsBetter_Greater(score, best_score) == score > best_score

\* "if score < best_score": the trial replaces the best moves found so far
IsBetter(score, best_score) == score < best_score

\* Mutant of OnTie: a tying move is dropped, the first minimal move stays alone
OnTie_KeepFirst(best_moves, move) == best_moves

\* "elif score == best_score: best_moves.append(move)"
OnTie(best_moves, move) == Append(best_moves, move)

\* Mutant of Trial: board.pop() is missing
Trial_NoPop(b, move) ==
    LET pushed == push(b, move)
    IN  [score |-> evaluate_board(pushed), board |-> pushed]

\* One trial of the loop: board.push(move), evaluate_board(board), board.pop();
\* the score and the board the trial leaves
Trial(b, move) ==
    LET pushed == push(b, move)
    IN  [score |-> evaluate_board(pushed), board |-> pop(pushed)]

\* The search loop of make_ai_move from the i-th legal move on.  The board is
\* threaded through the loop: each trial is push, evaluate, pop.
RECURSIVE SearchLoop(_, _, _, _, _)
SearchLoop(b, legal, i, best_score, best_moves) ==
    IF i > Len(legal) THEN [board |-> b, best_moves |-> best_moves]
    ELSE LET move   == legal[i]
             trial  == Trial(b, move)
             score  == trial.score
             popped == trial.board
         IN  IF IsBetter(score, best_score)
             THEN SearchLoop(popped, legal, i + 1, score, <<move>>)
             ELSE IF score = best_score
             THEN SearchLoop(popped, legal, i + 1, best_score, OnTie(best_moves, move))
             ELSE SearchLoop(popped, legal, i + 1, best_score, best_moves)

\* make_ai_move(board): the outcomes it can have, one for each move
\* random.choice can draw from best_moves
make_ai_move(b) ==
    LET legal == legal_move_list(b)
    IN  IF legal = <<>>
        THEN {[board |-> b, ret |-> FALSE]}
        ELSE LET found == SearchLoop(b, legal, 1, INF, <<>>)
             IN  IF found.best_moves # <<>>
                 THEN {[board |-> push(found.board, found.best_moves[r]), ret |-> TRUE] :
                          r \in 1..Len(found.best_moves)}
                 ELSE {[board |-> found.board, ret |-> FALSE]}

\* ------------------------------------------------------------- ChessApp
\* Python's truth value of selected_square (None or an int): None and 0 are false
Truthy(v) == v # None /\ v # 0

\* get_square_from_mouse(event)
get_square_from_mouse(event) ==
    LET col == event.x \div SQUARE_SIZE
        row == event.y \div SQUARE_SIZE
    IN  square(col, 7 - row)

\* Mutant of redraw_board: the canvas is left as it was
redraw_board_Skipped(st) == st

\* redraw_board: the canvas shows the placement and the highlighted square
redraw_board(st) ==
    [st EXCEPT !.drawn = [pieces |-> st.board.pieces, selected |-> st.selected_square]]

\* The message check_game_over builds
GameOverMessage(b) ==
    IF is_checkmate(b)
    THEN (IF b.turn = BLACK THEN "Checkmate! White wins." ELSE "Checkmate! Black wins.")
    ELSE IF is_stalemate(b) THEN "Stalemate! It's a draw."
    ELSE "Game Over! Draw by 1/2-1/2."

\* Mutant of check_game_over: the terminal branch falls through to "return False"
check_game_over_ReturnsFalse(st) ==
    IF is_game_over(st.board)
    THEN [st  |-> [st EXCEPT !.game_over = TRUE,
                             !.shown = Append(@, GameOverMessage(st.board))],
          ret |-> FALSE]
    ELSE [st |-> st, ret |-> FALSE]

\* Mutant of check_game_over: the message box is not shown
check_game_over_NoMessage(st) ==
    IF is_game_over(st.board)
    THEN [st |-> [st EXCEPT !.game_over = TRUE], ret |-> TRUE]
    ELSE [st |-> st, ret |-> FALSE]

\* check_game_over: the state after it and the value it returns
check_game_over(st) ==
    IF is_game_over(st.board)
    THEN [st  |-> [st EXCEPT !.game_over = TRUE,
                             !.shown = Append(@, GameOverMessage(st.board))],
          ret |-> TRUE]
    ELSE [st |-> st, ret |-> FALSE]

\* Mutant of execute_ai_move: check_game_over is not called after the AI move
execute_ai_move_NoCheck(st) ==
    LET fired == [st EXCEPT !.after_queue = @ - 1]
    IN  IF ~fired.game_over
        THEN {redraw_board([fired EXCEPT !.board = ai.board]) :
                 ai \in make_ai_move(fired.board)}
        ELSE {fired}

\* execute_ai_move, run by the event loop when the timer of root.after fires:
\* the states it can end in
execute_ai_move(st) ==
    LET fired == [st EXCEPT !.after_queue = @ - 1]
    IN  IF ~fired.game_over
        THEN {check_game_over(redraw_board([fired EXCEPT !.board = ai.board])).st :
                 ai \in make_ai_move(fired.board)}
        ELSE {fired}

\* Mutant of trigger_ai_move: execute_ai_move is called at once, not deferred
trigger_ai_move_Inline(st) ==
    CHOOSE s \in execute_ai_move([st EXCEPT !.after_queue = @ + 1]) : TRUE

\* Mutant of trigger_ai_move: the callback is not scheduled
trigger_ai_move_Dropped(st) == st

\* trigger_ai_move: root.after(250, self.execute_ai_move)
trigger_ai_move(st) == [st EXCEPT !.after_queue = @ + 1]

\* Mutant of CandidateMove: a pawn reaching the last rank becomes a knight
CandidateMove_Knight(b, selected, sq) ==
    LET piece == piece_at(b, selected)
        promotion ==
            IF /\ piece # 0
               /\ piece_type(piece) = PAWN
               /\ square_rank(selected) = 6
               /\ square_rank(sq) = 7
            THEN KNIGHT ELSE 0
    IN  Move(selected, sq, promotion)

\* The move on_square_click builds from the selection and the clicked square
CandidateMove(b, selected, sq) ==
    LET piece == piece_at(b, selected)
        promotion ==
            IF /\ piece # 0
               /\ piece_type(piece) = PAWN
               /\ square_rank(selected) = 6
               /\ square_rank(sq) = 7
            THEN QUEEN ELSE 0
    IN  Move(selected, sq, promotion)

\* Mutant of OwnPiece: the colour of the clicked piece is not compared
OwnPiece_AnyColour(b, piece) == piece # 0

\* "piece and piece.color == self.board.turn": the piece belongs to the side to move
OwnPiece(b, piece) == piece # 0 /\ piece_color(piece) = b.turn

\* Mutant of ApplyHumanMove: the selection is kept after the move
ApplyHumanMove_KeepsSelection(st, move) ==
    redraw_board([st EXCEPT !.board = push(@, move)])

\* The valid-move branch of on_square_click: push the move, clear the
\* selection, redraw
ApplyHumanMove(st, move) ==
    redraw_board([st EXCEPT !.board = push(@, move), !.selected_square = None])

\* on_square_click past its two guards: the click on a square of the board
HandleClick(st, event) ==
    LET sq == get_square_from_mouse(event)
    IN  IF Truthy(st.selected_square)
        THEN LET move == CandidateMove(st.board, st.selected_square, sq)
             IN  IF is_legal(st.board, move)
                 THEN LET moved   == ApplyHumanMove(st, move)
                          checked == check_game_over(moved)
                      IN  IF ~checked.ret THEN trigger_ai_move(checked.st) ELSE checked.st
                 ELSE IF sq = st.selected_square
                 THEN redraw_board([st EXCEPT !.selected_square = None])
                 ELSE LET piece_at_click == piece_at(st.board, sq)
                      IN  IF OwnPiece(st.board, piece_at_click)
                          THEN redraw_board([st EXCEPT !.selected_square = sq])
                          ELSE redraw_board([st EXCEPT !.selected_square = None])
        ELSE LET piece == piece_at(st.board, sq)
             IN  IF OwnPiece(st.board, piece)
                 THEN redraw_board([st EXCEPT !.selected_square = sq])
                 ELSE st

\* Mutant of on_square_click: the check of whose turn it is is missing
on_square_click_NoTurnCheck(st, event) ==
    IF st.game_over THEN st
    ELSE HandleClick(st, event)

\* Mutant of on_square_click: the check of game_over is missing
on_square_click_NoOverCheck(st, event) ==
    IF st.board.turn # WHITE THEN st
    ELSE HandleClick(st, event)

\* on_square_click(event)
on_square_click(st, event) ==
    IF st.game_over THEN st
    ELSE IF st.board.turn # WHITE THEN st
    ELSE HandleClick(st, event)

\* ------------------------------------------------------------ positions
Place(f) == [s \in SQUARES |-> IF s \in DOMAIN f THEN f[s] ELSE 0]

BackRank == <<ROOK, KNIGHT, BISHOP, QUEEN, KING, BISHOP, KNIGHT, ROOK>>

\* chess.Board(): the starting position
StartPieces ==
    [s \in SQUARES |->
        CASE square_rank(s) = 0 -> BackRank[square_file(s) + 1]
          [] square_rank(s) = 1 -> PAWN
          [] square_rank(s) = 6 -> -PAWN
          [] square_rank(s) = 7 -> -BackRank[square_file(s) + 1]
          [] OTHER -> 0]

\* Later positions of a game, White to move, no castling rights:
\* Ra1 Kg1 Pb7 against Kg8 Pf7 Pg7 Ph7 (b8=Q and Ra8 both mate)
RookPromotionPieces ==
    Place((0 :> ROOK) @@ (6 :> KING) @@ (49 :> PAWN) @@
          (62 :> -KING) @@ (53 :> -PAWN) @@ (54 :> -PAWN) @@ (55 :> -PAWN))

\* Kh1 Pa7 against Kb7 (Black can take the last White man: insufficient material)
BareKingPieces ==
    Place((7 :> KING) @@ (48 :> PAWN) @@ (49 :> -KING))

\* Kf7 Qg5 against Kh8 (Qg7 mates, Qg6 stalemates)
QueenEndingPieces ==
    Place((53 :> KING) @@ (38 :> QUEEN) @@ (63 :> -KING))

\* Kg1 Pf2 Pg2 Ph2 against Kc7 Ra8 (after Kh1 Black can mate on the back rank)
BackRankPieces ==
    Place((6 :> KING) @@ (13 :> PAWN) @@ (14 :> PAWN) @@ (15 :> PAWN) @@
          (50 :> -KING) @@ (56 :> -ROOK))

InitPieces ==
    {StartPieces, RookPromotionPieces, BareKingPieces, QueenEndingPieces, BackRankPieces}

\* ------------------------------------------------------------- the machine
VARIABLES
    board,            \* self.board: pieces, turn, move stack
    selected_square,  \* self.selected_square: None or a square
    game_over,        \* self.game_over
    after_queue,      \* number of execute_ai_move callbacks root.after holds
    shown,            \* the messages messagebox.showinfo has shown
    drawn,            \* what the canvas shows since the last redraw_board
    last              \* history: the handler that ran last and what it met

vars == <<board, selected_square, game_over, after_queue, shown, drawn, last>>

Cur ==
    [board |-> board, selected_square |-> selected_square, game_over |-> game_over,
     after_queue |-> after_queue, shown |-> shown, drawn |-> drawn]

Becomes(st) ==
    /\ board' = st.board
    /\ selected_square' = st.selected_square
    /\ game_over' = st.game_over
    /\ after_queue' = st.after_queue
    /\ shown' = st.shown
    /\ drawn' = st.drawn

\* ChessApp.__init__ (the board is chess.Board(), or a later position of a game)
Init ==
    /\ \E pcs \in InitPieces : board = [pieces |-> pcs, turn |-> WHITE, stack |-> <<>>]
    /\ selected_square = None
    /\ game_over = FALSE
    /\ after_queue = 0
    /\ shown = <<>>
    /\ drawn = [pieces |-> board.pieces, selected |-> None]
    /\ last = [op |-> "init", over |-> FALSE, turn |-> WHITE, branch |-> "init"]

\* Clicks land in the middle of a square of the canvas
Events ==
    {[x |-> c * SQUARE_SIZE + SQUARE_SIZE \div 2, y |-> r * SQUARE_SIZE + SQUARE_SIZE \div 2] :
        c \in 0..(COLS - 1), r \in 0..(ROWS - 1)}

\* History only: the branch of on_square_click a click takes in state st
Branch(st, after, event) ==
    LET sq == get_square_from_mouse(event)
    IN  IF st.game_over \/ st.board.turn # WHITE THEN "ignored"
        ELSE IF Len(after.board.stack) > Len(st.board.stack) THEN "move"
        ELSE IF after.selected_square = st.selected_square THEN
             (IF st.selected_square = None THEN "miss" ELSE "same")
        ELSE IF after.selected_square = None THEN
             (IF sq = st.selected_square THEN "deselect" ELSE "clear")
        ELSE IF st.selected_square = None THEN "select" ELSE "reselect"

\* The model follows a game for MaxPly half-moves: once they are played, the
\* handlers that could play another one are no longer run
Playable == Len(board.stack) < MaxPly

\* The event loop delivers a <Button-1> event to on_square_click
Click(event) ==
    /\ Playable \/ game_over \/ board.turn # WHITE
    /\ \E st \in {on_square_click(Cur, event)} :
          /\ Becomes(st)
          /\ last' = [op |-> "click", over |-> game_over, turn |-> board.turn,
                      branch |-> Branch(Cur, st, event)]

\* A callback scheduled with root.after is due
ExecuteAIEnabled == after_queue > 0 /\ (Playable \/ game_over)

\* The event loop runs a due execute_ai_move callback
ExecuteAI ==
    /\ ExecuteAIEnabled
    /\ \E st \in execute_ai_move(Cur) : Becomes(st)
    /\ last' = [op |-> "ai", over |-> game_over, turn |-> board.turn, branch |-> "ai"]

Next ==
    \/ \E event \in Events : Click(event)
    \/ ExecuteAI

Spec == Init /\ [][Next]_vars

\* What running a due callback does to the queue of root.after. Its steps are
\* the steps of ExecuteAI: ExecuteAI is enabled exactly where ExecuteAIEnabled
\* holds and takes the callback off the queue (ExecuteAIEnabledAgrees), and a
\* click leaves the queue alone while a callback is due
RunDueCallback == ExecuteAIEnabled /\ after_queue' = after_queue - 1

\* The event loop keeps running: a callback scheduled with root.after is run
\* once its delay has passed (weak fairness of running the due callback)
FairSpec == Spec /\ WF_after_queue(RunDueCallback)

\* A due callback can always run, and running it takes it off the queue:
\* ExecuteAI is enabled exactly where ExecuteAIEnabled holds
ExecuteAIEnabledAgrees ==
    ExecuteAIEnabled =>
        /\ execute_ai_move(Cur) # {}
        /\ \A st \in execute_ai_move(Cur) : st.after_queue = after_queue - 1
        /\ \A event \in Events : on_square_click(Cur, event).after_queue = after_queue

\* ------------------------------------------------------------------ claims
IsWhitePiece(p) == p # 0 /\ piece_color(p) = WHITE

\* C1: with White to move, the game in progress and a square X holding a White
\* piece selected (X any of 0..63), a click on a square Y whose candidate move
\* X-to-Y is legal applies exactly that move: the board becomes
\* push(board, move), the selection is cleared and Black is to move or the
\* game is over.
C1_LegalClickAppliesMove ==
    \A event \in Events :
        LET y == get_square_from_mouse(event)
            x == selected_square
        IN  (/\ Playable
             /\ ~game_over
             /\ board.turn = WHITE
             /\ x # None
             /\ IsWhitePiece(piece_at(board, x))
             /\ is_legal(board, CandidateMove(board, x, y)))
            => LET st == on_square_click(Cur, event)
               IN  /\ st.board = push(board, CandidateMove(board, x, y))
                   /\ st.selected_square = None
                   /\ (st.board.turn = BLACK \/ st.game_over)

\* C2: deselection is idempotent for every square: with White to move, the
\* game in progress and no selection, clicking a square X that holds a White
\* piece and clicking X again leaves the selection unset and the board as it was.
C2_DeselectIdempotent ==
    (~game_over /\ board.turn = WHITE /\ selected_square = None)
    => \A event \in Events :
          IsWhitePiece(piece_at(board, get_square_from_mouse(event)))
          => LET twice == on_square_click(on_square_click(Cur, event), event)
             IN  twice.selected_square = None /\ twice.board = board

\* C3: with a square X selected and a click on another square Y whose candidate
\* move X-to-Y is illegal, the selection becomes Y when Y holds a piece of the
\* side to move and becomes unset otherwise; the board is unchanged.
C3_IllegalClickReselectsOrClears ==
    selected_square # None
    => \A event \in Events :
          LET y == get_square_from_mouse(event)
              x == selected_square
              p == piece_at(board, y)
          IN  (y # x /\ ~is_legal(board, CandidateMove(board, x, y)))
              => LET st == on_square_click(Cur, event)
                 IN  /\ st.board = board
                     /\ st.selected_square =
                            (IF p # 0 /\ piece_color(p) = board.turn THEN y ELSE None)

\* C4: a click handled while the game is over or while Black is to move (the
\* AI reply is pending) is a no-op: board, selection, game_over, the pending
\* callbacks, the messages and the canvas all stay as they are.
C4_OutOfTurnClickIsNoOp ==
    (game_over \/ board.turn # WHITE)
    => \A event \in Events : on_square_click(Cur, event) = Cur

\* A click was ignored while the AI reply was pending
C4_Witness ==
    /\ last.op = "click" /\ last.branch = "ignored"
    /\ ~game_over /\ board.turn = BLACK /\ after_queue = 1

\* C5: make_ai_move is never called on a terminal board or without a legal
\* move: whenever a callback is pending the game is in progress, the board is
\* not terminal and has a legal move, so no outcome of make_ai_move is the
\* no-move result; every AI turn ran with the game in progress, and once the
\* game is over no callback is pending.
C5_AINeverCalledWithoutMoves ==
    /\ after_queue > 0 => (~game_over /\ ~is_game_over(board) /\ HasLegalMove(board))
    /\ (after_queue > 0 /\ Playable) => \A ai \in make_ai_move(board) : ai.ret = TRUE
    /\ last.op = "ai" => ~last.over
    /\ game_over => after_queue = 0

\* The AI has answered a human move
C5_Witness == last.op = "ai" /\ Len(board.stack) = 2 /\ board.turn = WHITE

\* The legal moves of b whose resulting evaluation is minimal
MinimalMoves(b) ==
    LET legal  == legal_moves(b)
        scores == {evaluate_board(push(b, m)) : m \in legal}
        least  == CHOOSE v \in scores : \A w \in scores : v <= w
    IN  {m \in legal : evaluate_board(push(b, m)) = least}

\* C6: on every board the AI is called on, the move make_ai_move applies is a
\* legal move and its resulting evaluation is the minimum over all legal moves.
C6_AIMoveIsLegalAndMinimal ==
    (after_queue > 0 /\ Playable)
    => LET legal  == legal_moves(board)
           scores == {evaluate_board(push(board, m)) : m \in legal}
       IN  \A ai \in make_ai_move(board) :
              /\ \E m \in legal : ai.board = push(board, m)
              /\ \A v \in scores : evaluate_board(ai.board) <= v

\* The AI has played a capture that beats the other legal moves
C6_Witness ==
    /\ last.op = "ai" /\ Len(board.stack) = 2
    /\ evaluate_board(board) < evaluate_board(pop(board))
    /\ MinimalMoves(pop(board)) # legal_moves(pop(board))

\* C7: the boards make_ai_move can produce are exactly the boards reached by
\* the minimal-score legal moves: every minimal move is a possible outcome.
C7_EveryMinimalMovePossible ==
    (after_queue > 0 /\ Playable)
    => {ai.board : ai \in make_ai_move(board)} = {push(board, m) : m \in MinimalMoves(board)}

\* The AI has played one of several minimal moves
C7_Witness ==
    /\ last.op = "ai" /\ Len(board.stack) = 2
    /\ Cardinality(MinimalMoves(pop(board))) > 1

\* C8: once game_over is true it stays true and no handler changes the board.
C8_GameOverAbsorbing == [][game_over => (game_over' /\ board' = board)]_vars

\* A click was handled after the game had ended
C8_Witness == game_over /\ last.op = "click" /\ last.over

\* C9: at most one end-of-game message is shown, and it has been shown exactly
\* when the board is terminal (so it is shown by the handler that makes the
\* board terminal and by no later one).
C9_MessageShownOnce ==
    /\ Len(shown) <= 1
    /\ Len(shown) = 1 <=> is_game_over(board)
    /\ Len(shown) = 1 <=> game_over

\* The message was shown and a later click did not show it again
C9_Witness == Len(shown) = 1 /\ last.op = "click" /\ last.over

\* C10: while the AI reply is pending the canvas shows the board with the
\* human move and Black is still to move; the click handler that applies a
\* human move redraws that board and applies no AI move itself, it only
\* schedules the callback (unless the game is over).
C10_RenderBeforeCompute ==
    /\ after_queue > 0 => (drawn.pieces = board.pieces /\ board.turn = BLACK)
    /\ (last.op = "click" /\ last.branch = "move")
       => /\ board.turn = BLACK
          /\ drawn.pieces = board.pieces
          /\ (game_over \/ after_queue = 1)

\* A human move has been applied and drawn, the AI callback is pending
C10_Witness ==
    /\ last.op = "click" /\ last.branch = "move"
    /\ after_queue = 1 /\ ~game_over

\* C11: with White to move, the game in progress and no selection, a click on
\* a square that does not hold a White piece leaves the selection unset and the
\* board unchanged; a click on a square holding a White piece selects it.
C11_SelectOnlyOwnPiece ==
    (~game_over /\ board.turn = WHITE /\ selected_square = None)
    => \A event \in Events :
          LET sq == get_square_from_mouse(event)
              st == on_square_click(Cur, event)
          IN  /\ st.board = board
              /\ st.selected_square =
                     (IF IsWhitePiece(piece_at(board, sq)) THEN sq ELSE None)

\* A click on an empty or Black square was handled with nothing selected
C11_Witness ==
    /\ last.op = "click" /\ last.branch = "miss"
    /\ ~game_over /\ board.turn = WHITE /\ selected_square = None

\* The board with the colour of every piece flipped
FlipColours(b) == [b EXCEPT !.pieces = [s \in SQUARES |-> 0 - b.pieces[s]]]

\* Number of pieces of type ty and colour c
CountOf(pcs, ty, c) == Cardinality({s \in SQUARES : pcs[s] = MakePiece(ty, c)})

\* White-minus-Black material with pawn 1, knight 3, bishop 3, rook 5, queen 9, king 0
MaterialBalance(pcs) ==
    LET diff(ty) == CountOf(pcs, ty, WHITE) - CountOf(pcs, ty, BLACK)
    IN  1 * diff(PAWN) + 3 * diff(KNIGHT) + 3 * diff(BISHOP)
          + 5 * diff(ROOK) + 9 * diff(QUEEN) + 0 * diff(KING)

\* C12: evaluate_board is antisymmetric under colour swap: on every board the
\* evaluation of the colour-flipped board is the negated evaluation, and the
\* evaluation is the White-minus-Black sum of the piece values.
C12_EvaluateAntisymmetric ==
    /\ evaluate_board(FlipColours(board)) = 0 - evaluate_board(board)
    /\ evaluate_board(board) = MaterialBalance(board.pieces)

\* The AI has evaluated its moves and left a board of unequal material
C12_Witness == last.op = "ai" /\ evaluate_board(board) < 0

\* C13: the search of make_ai_move leaves no trace on the board: the loop ends
\* with the board it began with, so every outcome of make_ai_move on a board
\* with legal moves is that board with exactly one legal move pushed (the move
\* stack one longer, one pop gives the board back); on a board without legal
\* moves the only outcome is the no-move result with the board unchanged.
C13_SearchLeavesNoTrace ==
    /\ (after_queue > 0 /\ Playable)
       => LET legal == legal_move_list(board)
          IN  /\ SearchLoop(board, legal, 1, INF, <<>>).board = board
              /\ \A ai \in make_ai_move(board) :
                    /\ ai.ret = TRUE
                    /\ Len(ai.board.stack) = Len(board.stack) + 1
                    /\ pop(ai.board) = board
                    /\ \E i \in 1..Len(legal) : ai.board = push(board, legal[i])
    /\ ~HasLegalMove(board) => make_ai_move(board) = {[board |-> board, ret |-> FALSE]}

\* The AI has searched a board with several legal moves and applied one
C13_Witness ==
    /\ last.op = "ai" /\ Len(board.stack) = 2
    /\ board.stack[2] # board.pieces
    /\ Len(legal_move_list(pop(board))) > 1

\* C14: human and AI moves alternate strictly: at most one callback is
\* pending; one is pending exactly while Black is to move in a game in
\* progress, so make_ai_move is only called with Black to move; a human move
\* is only applied with White to move and hands the turn to Black, an AI turn
\* hands it back to White; the plies on the move stack alternate from White's.
C14_StrictAlternation ==
    /\ after_queue <= 1
    /\ after_queue = 1 <=> (board.turn = BLACK /\ ~game_over)
    /\ board.turn = (IF Len(board.stack) % 2 = 0 THEN WHITE ELSE BLACK)
    /\ last.op = "ai" => (last.turn = BLACK /\ board.turn = WHITE)
    /\ (last.op = "click" /\ last.branch = "move")
       => (last.turn = WHITE /\ board.turn = BLACK)

\* The AI has answered and the human is to move again, no callback pending
C14_Witness ==
    /\ last.op = "ai" /\ last.turn = BLACK
    /\ board.turn = WHITE /\ after_queue = 0 /\ ~game_over

\* C15: liveness of the AI turn: whenever a human move has left Black to move
\* in a game in progress (within the plies the model follows), the callback
\* eventually runs and the controller reaches White to move with no selection
\* and no callback pending, or the end of the game.
C15_AITurnCompletes ==
    (board.turn = BLACK /\ ~game_over /\ Playable)
    ~> (game_over \/ (board.turn = WHITE /\ selected_square = None /\ after_queue = 0))

\* The AI turn has completed and the controller awaits a human selection
C15_Witness ==
    /\ last.op = "ai" /\ ~game_over /\ board.turn = WHITE
    /\ selected_square = None /\ after_queue = 0 /\ Len(shown) = 0

\* C16: human promotion is always to a queen. With White to move, the game in
\* progress and a selection the handler acts on, the candidate move built for
\* any clicked square carries promotion = QUEEN exactly when the selected piece
\* is a White pawn going from the seventh rank to the eighth, and no promotion
\* otherwise; a click that applies a move applies that candidate, so the move
\* is never an underpromotion and adds no White knight, bishop or rook.
C16_HumanPromotesToQueen ==
    /\ (~game_over /\ board.turn = WHITE /\ Truthy(selected_square)) =>
          \A event \in Events :
             LET sq   == get_square_from_mouse(event)
                 cand == CandidateMove(board, selected_square, sq)
                 st   == on_square_click(Cur, event)
             IN  /\ cand.promotion =
                       (IF /\ piece_at(board, selected_square) = MakePiece(PAWN, WHITE)
                           /\ square_rank(selected_square) = 6
                           /\ square_rank(sq) = 7
                        THEN QUEEN ELSE 0)
                 /\ Len(st.board.stack) > Len(board.stack) =>
                       /\ st.board = push(board, cand)
                       /\ cand.promotion \notin {KNIGHT, BISHOP, ROOK}
    /\ (last.op = "click" /\ last.branch = "move") =>
          \A ty \in {KNIGHT, BISHOP, ROOK} :
             CountOf(board.pieces, ty, WHITE)
                <= CountOf(board.stack[Len(board.stack)], ty, WHITE)

\* The human has just promoted a pawn: White has one queen more than before
C16_Witness ==
    /\ last.op = "click" /\ last.branch = "move"
    /\ CountOf(board.pieces, QUEEN, WHITE)
          = CountOf(board.stack[Len(board.stack)], QUEEN, WHITE) + 1
    /\ CountOf(board.pieces, PAWN, WHITE)
          = CountOf(board.stack[Len(board.stack)], PAWN, WHITE) - 1

\* C17: selection invariant. Between event handlers, a set selection means
\* that the game is in progress, White is to move and the selected square
\* holds a White piece; the selection is unset whenever an AI reply is pending
\* and whenever the game is over.
C17_SelectionInvariant ==
    /\ selected_square # None =>
          /\ selected_square \in SQUARES
          /\ ~game_over
          /\ board.turn = WHITE
          /\ IsWhitePiece(piece_at(board, selected_square))
    /\ after_queue > 0 => selected_square = None
    /\ game_over => selected_square = None

\* A second click has moved the selection to another White piece
C17_Witness ==
    /\ last.op = "click" /\ last.branch = "reselect"
    /\ selected_square # None
    /\ IsWhitePiece(piece_at(board, selected_square))

\* C18: the game_over flag agrees with the rules engine. Between event
\* handlers game_over is true exactly when the rules engine reports the board
\* as terminal: the status check has followed every move applied by either
\* side before the next event is handled.
C18_GameOverAgreesWithEngine ==
    game_over <=> is_game_over(board)

\* The AI move has ended the game and the flag records it
C18_Witness ==
    /\ last.op = "ai" /\ ~last.over
    /\ game_over /\ is_game_over(board)

\* C19: the display is never stale. Between event handlers the board and the
\* selection last drawn on the canvas are the current board and selection:
\* every handler that changes either one redraws before it returns.
C19_DisplayNeverStale ==
    drawn = [pieces |-> board.pieces, selected |-> selected_square]

\* A click has selected a piece and the canvas shows the highlight
C19_Witness ==
    /\ last.op = "click" /\ last.branch = "select"
    /\ selected_square # None
    /\ drawn.selected = selected_square

====
